---- MODULE Spec2Model ----
(***************************************************************************)
(* The TradingFeed component: connection negotiation (Socket.IO first,     *)
(* raw WebSocket second), the React state it drives, the transports'       *)
(* callbacks and the cleanup effect.                                       *)
(*                                                                         *)
(* The repository holds two generations of the component:                  *)
(*   variant "feed" : src/unnamed/part_000 (and part_001, which has the    *)
(*                    same negotiation code without the filter panel)      *)
(*   variant "page" : src/app/page.tsx (mock mode, error state, and a      *)
(*                    Socket.IO 'disconnect' handler)                      *)
(* Each behaviour fixes one variant in Init.                               *)
(*                                                                         *)
(* Every step is one callback of the single-threaded event loop: the       *)
(* callback itself, the promise continuation (microtask) it releases, the  *)
(* render of the batched state updates and the effect cleanup that the     *)
(* render triggers.                                                        *)
(*                                                                         *)
(* Spec  is the whole component; SpecN is handleTradeData applied to the   *)
(* payload shapes its branches distinguish, in a connected session; SpecB  *)
(* is one session whose buffer is at its cap; SpecF is the filter panel    *)
(* over a fixed buffer; SpecP is the producer of the backend README; SpecL *)
(* is the negotiator of part_000 with handshake timers that fire.          *)
(***************************************************************************)
EXTENDS Integers, Sequences, FiniteSets, TLC

\* ------------------------------------------------------------------ bounds
MaxConnects == 3      \* connectSmart invocations that start a handshake
MaxRegs == 2          \* runs of a socket's 'connect' handler (1 + reconnects)
MaxMocks == 1         \* startMockMode invocations
MaxPush == 1          \* trades pushed by transports / the mock timer
MaxSent == 2          \* trades the producer sends on one connection

\* ------------------------------------------------------- program constants
InitialMockTrades == 10   \* Array.from({ length: 10 }, generateMockTrade)
SliceEnd == 99            \* prevTrades.slice(0, 99)

Invs == 1..MaxConnects
Mocks == 1..MaxMocks
Variants == {"feed", "page"}
Urls == {"", " ", "wss://host"}
Clients == {"c1", "c2"}   \* the connections the producer can accept

VARIABLES
  variant,           \* which generation of the component runs
  wsUrl,             \* useState("")
  socket,            \* useState<Socket | null>: 0 is null, else the invocation that made it
  webSocket,         \* useState<WebSocket | null>: 0 is null
  connectionType,    \* "socket.io" | "websocket" | "null"
  connectionStatus,  \* "disconnected" | "connecting" | "connected" | "error"
  trades,            \* useState<Trade[]>
  error,             \* page: the error state; feed: the last toast.error; <<>> is none
  isMockMode,        \* page only
  mockInterval,      \* page only: 0 is null, else the timer id
  mock,              \* the interval timers: "none" | "running" | "cleared"
  pc,                \* where invocation i of connectSmart stands: "none" | "sio" | "ws" | "done"
  sio,               \* the Socket.IO socket of invocation i
  sioTimer,          \* its handshake setTimeout is pending
  sioRegs,           \* how often its 'connect' handler has registered the trade handlers
  sioDisc,           \* page: the 'disconnect' handler is registered on it
  sioErr,            \* socketIOError, the rejection connectSmart caught; "none" outside its catch block
  ws,                \* the WebSocket of invocation i: readyState, or "none"
  wsTimer,           \* its handshake setTimeout is pending
  wsP,               \* the promise tryWebSocket returned: "none" | "pending" | "resolved" | "rejected"
  errReports,        \* user-visible error messages reported by invocation i
  pushes,            \* trades pushed since the buffer was last replaced (bounds the model)
  task,              \* a WebSocket whose close event ends the running browser task; 0 if none
  msg,               \* the argument of the last handleTradeData call that was recorded
  filters,           \* feed only: useState<FilterState>
  server,            \* the producer: for each connection its ws and tradeInterval
  last               \* the callback that ran last: <<name, invocation or timer (0 if none)>>

vars == <<variant, wsUrl, socket, webSocket, connectionType, connectionStatus, trades,
          error, isMockMode, mockInterval, mock, pc, sio, sioTimer, sioRegs, sioDisc,
          sioErr, ws, wsTimer, wsP, errReports, pushes, task, msg, filters, server, last>>

\* The component's own state.
clientVars == <<variant, wsUrl, socket, webSocket, connectionType, connectionStatus,
                trades, error, isMockMode, mockInterval, mock, pc, sio, sioTimer,
                sioRegs, sioDisc, sioErr, ws, wsTimer, wsP, errReports, pushes, task,
                msg, filters>>

\* The producer before it accepted any connection.
NoServer ==
  [c \in Clients |-> [readyState |-> "none", tradeInterval |-> "none", sent |-> <<>>]]

\* The part of the state the callbacks transform, as one record.
World ==
  [wsUrl |-> wsUrl, socket |-> socket, webSocket |-> webSocket,
   connectionType |-> connectionType, connectionStatus |-> connectionStatus,
   trades |-> trades, error |-> error, isMockMode |-> isMockMode,
   mockInterval |-> mockInterval, mock |-> mock, pc |-> pc, sio |-> sio,
   sioTimer |-> sioTimer, sioRegs |-> sioRegs, sioDisc |-> sioDisc, sioErr |-> sioErr,
   ws |-> ws, wsTimer |-> wsTimer, wsP |-> wsP, errReports |-> errReports,
   pushes |-> pushes, task |-> task, msg |-> msg, filters |-> filters]

Commit(w, l) ==
  /\ wsUrl' = w.wsUrl
  /\ socket' = w.socket
  /\ webSocket' = w.webSocket
  /\ connectionType' = w.connectionType
  /\ connectionStatus' = w.connectionStatus
  /\ trades' = w.trades
  /\ error' = w.error
  /\ isMockMode' = w.isMockMode
  /\ mockInterval' = w.mockInterval
  /\ mock' = w.mock
  /\ pc' = w.pc
  /\ sio' = w.sio
  /\ sioTimer' = w.sioTimer
  /\ sioRegs' = w.sioRegs
  /\ sioDisc' = w.sioDisc
  /\ sioErr' = w.sioErr
  /\ ws' = w.ws
  /\ wsTimer' = w.wsTimer
  /\ wsP' = w.wsP
  /\ errReports' = w.errReports
  /\ pushes' = w.pushes
  /\ task' = w.task
  /\ msg' = w.msg
  /\ filters' = w.filters
  /\ last' = l
  /\ UNCHANGED <<variant, server>>

\* ------------------------------------------------------------ the transports

\* The handler connectSmart registers for the Socket.IO 'disconnect' event.
OnSocketDisconnect(w, i) ==
  IF w.sioDisc[i]
    THEN [w EXCEPT !.connectionStatus = "disconnected", !.socket = 0,
                   !.connectionType = "null"]
    ELSE w

\* socket.disconnect(): the socket closes for good (no reconnection); a socket that
\* was connected emits 'disconnect' ("io client disconnect") to its handlers.
SocketDisconnect(w, i) ==
  LET w1 == [w EXCEPT !.sio[i] = "closed"]
  IN IF w.sio[i] = "connected" THEN OnSocketDisconnect(w1, i) ELSE w1

\* ws.close(): a connecting or open socket starts closing, its close event comes
\* later as a task of its own; a closing or closed one is left alone.
WebSocketClose(w, i) ==
  IF w.ws[i] \in {"CONNECTING", "OPEN"} THEN [w EXCEPT !.ws[i] = "CLOSING"] ELSE w

\* ws.onclose
OnWsClose(w) ==
  [w EXCEPT !.connectionStatus = "disconnected", !.webSocket = 0,
            !.connectionType = "null"]

\* ------------------------------------------------------- the cleanup effect

EffectDeps(w) ==
  IF variant = "page" THEN <<w.socket, w.webSocket, w.mockInterval>>
                      ELSE <<w.socket, w.webSocket, 0>>

\* The cleanup the effect returned when it last ran; deps are the handles it closed over.
EffectCleanup(deps, w) ==
  LET w1 == IF deps[1] # 0 THEN SocketDisconnect(w, deps[1]) ELSE w
      w2 == IF deps[2] # 0 THEN WebSocketClose(w1, deps[2]) ELSE w1
  IN IF deps[3] # 0 THEN [w2 EXCEPT !.mock[deps[3]] = "cleared"] ELSE w2

\* Render after a callback: while the dependencies differ from those of the effect
\* that is installed, React runs that effect's cleanup and installs the effect again.
RECURSIVE Render(_, _)
Render(deps, w) ==
  IF EffectDeps(w) = deps THEN w
  ELSE Render(EffectDeps(w), EffectCleanup(deps, w))

\* A callback f applied to the current state, followed by the render.
Step(w, l) == Commit(Render(EffectDeps(World), w), l)

Idle == task = 0

\* ------------------------------------------------------------ connectSmart

Trim(u) == IF u = " " THEN "" ELSE u

ConnectEnabled ==
  IF variant = "page"
    THEN ~(connectionStatus = "connected" \/ isMockMode) /\ connectionStatus # "connecting"
    ELSE connectionStatus \notin {"connected", "connecting"}

InputEnabled ==
  IF variant = "page" THEN ~(connectionStatus = "connected" \/ isMockMode)
                      ELSE connectionStatus # "connected"

BlankUrlMessage ==
  IF variant = "page" THEN <<"Please enter a server URL">>
                      ELSE <<"Please enter a WebSocket URL">>

setWsUrl(u) ==
  /\ Idle
  /\ InputEnabled
  /\ u # wsUrl
  /\ Step([World EXCEPT !.wsUrl = u], <<"setWsUrl", 0>>)

\* trySocketIO: io(url, ...) and the handshake timer.
trySocketIO(w, i) ==
  [w EXCEPT !.sio[i] = "opening", !.sioTimer[i] = TRUE]

\* tryWebSocket: new WebSocket(url) and the handshake timer.
tryWebSocket(w, i) ==
  [w EXCEPT !.ws[i] = "CONNECTING", !.wsTimer[i] = TRUE, !.wsP[i] = "pending"]

\* Mutant: both attempts are started at once instead of one after the other.
ConnectStart_Parallel(w, i) ==
  tryWebSocket(trySocketIO([w EXCEPT !.connectionStatus = "connecting", !.pc[i] = "sio"], i), i)

\* connectSmart up to its first await.
ConnectStart(w, i) ==
  LET w1 == [w EXCEPT !.connectionStatus = "connecting", !.pc[i] = "sio",
                      !.error = IF variant = "page" THEN <<>> ELSE @]
  IN trySocketIO(w1, i)

\* Mutant: the blank-URL branch sets the status before it returns.
connectSmartBlank_Connecting ==
  /\ Idle
  /\ ConnectEnabled
  /\ Trim(wsUrl) = ""
  /\ Step([World EXCEPT !.error = BlankUrlMessage, !.connectionStatus = "connecting"],
          <<"connectSmartBlank", 0>>)

connectSmartBlank ==
  /\ Idle
  /\ ConnectEnabled
  /\ Trim(wsUrl) = ""
  /\ Step([World EXCEPT !.error = BlankUrlMessage], <<"connectSmartBlank", 0>>)

connectSmart(i) ==
  /\ Idle
  /\ ConnectEnabled
  /\ Trim(wsUrl) # ""
  /\ pc[i] = "none"
  /\ \A j \in Invs : j < i => pc[j] # "none"
  /\ Step(ConnectStart(World, i), <<"connectSmart", i>>)

\* Mutant: the continuation forgets setConnectionType("socket.io").
SocketIOResolved_NoType(w, i) ==
  [w EXCEPT !.socket = i, !.connectionStatus = "connected", !.pc[i] = "done"]

\* await trySocketIO resolved: the continuation of connectSmart.
SocketIOResolved(w, i) ==
  LET w1 == [w EXCEPT !.socket = i, !.connectionType = "socket.io",
                      !.connectionStatus = "connected", !.pc[i] = "done"]
  IN IF variant = "page" THEN [w1 EXCEPT !.sioDisc[i] = TRUE] ELSE w1

\* await trySocketIO rejected: the catch block starts the WebSocket attempt.
SocketIORejected(w, i, why) ==
  tryWebSocket([w EXCEPT !.sioErr[i] = why, !.pc[i] = "ws"], i)

\* Mutant: the continuation stores the WebSocket in the Socket.IO state.
WebSocketResolved_WrongHandle(w, i) ==
  [w EXCEPT !.socket = i, !.connectionType = "websocket",
            !.connectionStatus = "connected", !.pc[i] = "done", !.wsP[i] = "resolved",
            !.sioErr[i] = "none"]

\* await tryWebSocket resolved.
WebSocketResolved(w, i) ==
  [w EXCEPT !.webSocket = i, !.connectionType = "websocket",
            !.connectionStatus = "connected", !.pc[i] = "done", !.wsP[i] = "resolved",
            !.sioErr[i] = "none"]

SocketMsg(why) ==
  IF why = "timeout" THEN "Socket.IO connection timeout" ELSE "connect_error message"

WsMsg(why) ==
  IF why = "timeout" THEN "WebSocket connection timeout" ELSE "Unknown WebSocket error"

FailureMessage(sioWhy, wsWhy) ==
  IF variant = "page"
    THEN <<"Connection failed. Socket.IO: ", SocketMsg(sioWhy), ", WebSocket: ", WsMsg(wsWhy)>>
    ELSE <<"Failed to connect via Socket.IO or WebSocket">>

\* await tryWebSocket rejected: both attempts failed.
WebSocketRejected(w, i, why) ==
  [w EXCEPT !.wsP[i] = "rejected", !.pc[i] = "done", !.connectionStatus = "error",
            !.error = FailureMessage(w.sioErr[i], why),
            !.errReports[i] = @ + 1, !.sioErr[i] = "none"]

\* ------------------------------------------------- Socket.IO socket callbacks

\* Mutant: the 'connect' handler does not clear the handshake timer.
SioConnect_KeepsTimer(i) ==
  /\ Idle
  /\ sio[i] \in {"opening", "reconnecting"}
  /\ LET w1 == [World EXCEPT !.sio[i] = "connected", !.sioRegs[i] = @ + 1]
         w2 == IF pc[i] = "sio" THEN SocketIOResolved(w1, i) ELSE w1
     IN Step(w2, <<"SioConnect", i>>)

\* newSocket.on('connect'): the first connect, or a reconnect of the same socket.
SioConnect(i) ==
  /\ Idle
  /\ sio[i] \in {"opening", "reconnecting"}
  /\ LET w1 == [World EXCEPT !.sio[i] = "connected", !.sioTimer[i] = FALSE,
                             !.sioRegs[i] = @ + 1]
         w2 == IF pc[i] = "sio" THEN SocketIOResolved(w1, i) ELSE w1
     IN Step(w2, <<"SioConnect", i>>)

\* newSocket.on('connect_error')
SioConnectError(i) ==
  /\ Idle
  /\ sio[i] \in {"opening", "reconnecting"}
  /\ LET w1 == SocketDisconnect([World EXCEPT !.sioTimer[i] = FALSE], i)
         w2 == IF pc[i] = "sio" THEN SocketIORejected(w1, i, "connect_error") ELSE w1
     IN Step(w2, <<"SioConnectError", i>>)

\* the setTimeout callback of trySocketIO
SioTimeout(i) ==
  /\ Idle
  /\ sioTimer[i]
  /\ LET w1 == SocketDisconnect([World EXCEPT !.sioTimer[i] = FALSE], i)
         w2 == IF pc[i] = "sio" THEN SocketIORejected(w1, i, "timeout") ELSE w1
     IN Step(w2, <<"SioTimeout", i>>)

\* The server or the network ends an established Socket.IO connection: the socket
\* emits 'disconnect'. The client was created without reconnection: false, so after
\* a lost transport it reconnects by itself; after a server-side disconnect it does not.
SioServerClose(i, reconnects) ==
  /\ Idle
  /\ sio[i] = "connected"
  /\ reconnects => sioRegs[i] < MaxRegs
  /\ LET w1 == [World EXCEPT !.sio[i] = IF reconnects THEN "reconnecting" ELSE "closed"]
     IN Step(OnSocketDisconnect(w1, i), <<"SioServerClose", i>>)

\* ------------------------------------------------------ WebSocket callbacks

\* ws.onopen
WsOpen(i) ==
  /\ Idle
  /\ ws[i] = "CONNECTING"
  /\ LET w1 == [World EXCEPT !.ws[i] = "OPEN", !.wsTimer[i] = FALSE]
         w2 == IF pc[i] = "ws" THEN WebSocketResolved(w1, i) ELSE w1
     IN Step(w2, <<"WsOpen", i>>)

\* ws.onerror while connecting: the browser fails the connection and fires error and
\* then close in the same task; the close event is the next step.
WsError(i) ==
  /\ Idle
  /\ ws[i] = "CONNECTING"
  /\ LET w1 == [World EXCEPT !.ws[i] = "CLOSING", !.wsTimer[i] = FALSE, !.task = i]
         w2 == IF pc[i] = "ws" THEN WebSocketRejected(w1, i, "error_event") ELSE w1
     IN Step(w2, <<"WsError", i>>)

\* Mutant: the handshake timer closes the socket and forgets to reject.
WsTimeout_NoReject(i) ==
  /\ Idle
  /\ wsTimer[i]
  /\ Step(WebSocketClose([World EXCEPT !.wsTimer[i] = FALSE], i), <<"WsTimeout", i>>)

\* the setTimeout callback of tryWebSocket
WsTimeout(i) ==
  /\ Idle
  /\ wsTimer[i]
  /\ LET w1 == WebSocketClose([World EXCEPT !.wsTimer[i] = FALSE], i)
         w2 == IF pc[i] = "ws" THEN WebSocketRejected(w1, i, "timeout") ELSE w1
     IN Step(w2, <<"WsTimeout", i>>)

\* The close event of a closing socket (after ws.close() or a failed connection).
WsClose(i) ==
  /\ task \in {0, i}
  /\ ws[i] = "CLOSING"
  /\ Step(OnWsClose([World EXCEPT !.ws[i] = "CLOSED", !.task = 0]), <<"WsClose", i>>)

\* The server or the network ends an open WebSocket: the close event.
WsServerClose(i) ==
  /\ Idle
  /\ ws[i] = "OPEN"
  /\ Step(OnWsClose([World EXCEPT !.ws[i] = "CLOSED"]), <<"WsServerClose", i>>)

\* ----------------------------------------------------------- disconnectSmart

\* Mutant: the WebSocket branch is missing, only a Socket.IO socket is closed.
DisconnectSmart_KeepsWebSocket(w) ==
  LET w1 == IF w.socket # 0
              THEN [SocketDisconnect(w, w.socket) EXCEPT !.socket = 0] ELSE w
  IN [w1 EXCEPT !.connectionType = "null", !.connectionStatus = "disconnected"]

\* Mutant: disconnecting also empties the trade buffer.
DisconnectSmart_ClearsTrades(w) ==
  LET w1 == IF w.socket # 0
              THEN [SocketDisconnect(w, w.socket) EXCEPT !.socket = 0] ELSE w
      w2 == IF w.webSocket # 0
              THEN [WebSocketClose(w1, w.webSocket) EXCEPT !.webSocket = 0] ELSE w1
  IN [w2 EXCEPT !.connectionType = "null", !.connectionStatus = "disconnected",
                !.trades = <<>>]

DisconnectSmart(w) ==
  LET w1 == IF w.socket # 0
              THEN [SocketDisconnect(w, w.socket) EXCEPT !.socket = 0] ELSE w
      w2 == IF w.webSocket # 0
              THEN [WebSocketClose(w1, w.webSocket) EXCEPT !.webSocket = 0] ELSE w1
  IN [w2 EXCEPT !.connectionType = "null", !.connectionStatus = "disconnected"]

\* The Disconnect button: shown while connected (page: or in mock mode, where it
\* stops mock mode instead).
disconnectSmart ==
  /\ Idle
  /\ connectionStatus = "connected"
  /\ variant = "page" => ~isMockMode
  /\ Step(DisconnectSmart(World), <<"disconnectSmart", 0>>)

\* ------------------------------------------------------------ the filter panel
\* A text the user types (and, where the filter reads them, a trade's symbol and
\* exchange) is the sequence of its characters; "" is <<>>.

\* useState<FilterState> initial value, and what clearFilters sets.
DefaultFilters ==
  [symbol |-> <<>>, priceMin |-> <<>>, priceMax |-> <<>>, sizeMin |-> <<>>,
   sizeMax |-> <<>>, sides |-> <<"buy", "sell">>, exchange |-> <<>>]

\* String.prototype.toLowerCase, character by character.
LowerChar(c) ==
  CASE c = "B" -> "b" [] c = "E" -> "e" [] c = "K" -> "k" [] c = "T" -> "t" [] OTHER -> c
ToLowerCase(t) == [k \in 1..Len(t) |-> LowerChar(t[k])]

\* String.prototype.includes
Includes(t, sub) ==
  \E i \in 0..(Len(t) - Len(sub)) : \A j \in 1..Len(sub) : t[i + j] = sub[j]

\* parseFloat on the value of a number input: an optional sign and decimal digits.
DigitValue(c) ==
  CASE c = "0" -> 0 [] c = "1" -> 1 [] c = "2" -> 2 [] c = "3" -> 3 [] c = "4" -> 4
    [] c = "5" -> 5 [] c = "6" -> 6 [] c = "7" -> 7 [] c = "8" -> 8 [] c = "9" -> 9
RECURSIVE ParseDigits(_)
ParseDigits(t) ==
  IF t = <<>> THEN 0
  ELSE 10 * ParseDigits(SubSeq(t, 1, Len(t) - 1)) + DigitValue(t[Len(t)])
ParseFloat(t) == IF t[1] = "-" THEN 0 - ParseDigits(Tail(t)) ELSE ParseDigits(t)

\* Mutant: the upper price bound excludes a trade whose price equals it.
FilterCheck_ExclusiveMax(n, trade, f) ==
  CASE n = 1 -> ~(f.symbol # <<>> /\ ~Includes(ToLowerCase(trade.symbol), ToLowerCase(f.symbol)))
    [] n = 2 -> ~(f.priceMin # <<>> /\ trade.price < ParseFloat(f.priceMin))
    [] n = 3 -> ~(f.priceMax # <<>> /\ trade.price >= ParseFloat(f.priceMax))
    [] n = 4 -> ~(f.sizeMin # <<>> /\ trade.size < ParseFloat(f.sizeMin))
    [] n = 5 -> ~(f.sizeMax # <<>> /\ trade.size > ParseFloat(f.sizeMax))
    [] n = 6 -> ~(~(\E k \in 1..Len(f.sides) : f.sides[k] = trade.side))
    [] n = 7 -> ~(f.exchange # <<>>
                   /\ ~Includes(ToLowerCase(trade.exchange), ToLowerCase(f.exchange)))

\* Mutant: a blank bound is read as the number 0.
FilterCheck_BlankIsZero(n, trade, f) ==
  LET Bound(t) == IF t = <<>> THEN 0 ELSE ParseFloat(t)
  IN CASE n = 1 -> ~(f.symbol # <<>>
                      /\ ~Includes(ToLowerCase(trade.symbol), ToLowerCase(f.symbol)))
       [] n = 2 -> ~(trade.price < Bound(f.priceMin))
       [] n = 3 -> ~(trade.price > Bound(f.priceMax))
       [] n = 4 -> ~(trade.size < Bound(f.sizeMin))
       [] n = 5 -> ~(trade.size > Bound(f.sizeMax))
       [] n = 6 -> ~(~(\E k \in 1..Len(f.sides) : f.sides[k] = trade.side))
       [] n = 7 -> ~(f.exchange # <<>>
                      /\ ~Includes(ToLowerCase(trade.exchange), ToLowerCase(f.exchange)))

\* One `if (...) return false` of the filter callback, by its position; TRUE when the
\* trade passes it.
FilterCheck(n, trade, f) ==
  CASE n = 1 -> ~(f.symbol # <<>> /\ ~Includes(ToLowerCase(trade.symbol), ToLowerCase(f.symbol)))
    [] n = 2 -> ~(f.priceMin # <<>> /\ trade.price < ParseFloat(f.priceMin))
    [] n = 3 -> ~(f.priceMax # <<>> /\ trade.price > ParseFloat(f.priceMax))
    [] n = 4 -> ~(f.sizeMin # <<>> /\ trade.size < ParseFloat(f.sizeMin))
    [] n = 5 -> ~(f.sizeMax # <<>> /\ trade.size > ParseFloat(f.sizeMax))
    [] n = 6 -> ~(~(\E k \in 1..Len(f.sides) : f.sides[k] = trade.side))
    [] n = 7 -> ~(f.exchange # <<>>
                   /\ ~Includes(ToLowerCase(trade.exchange), ToLowerCase(f.exchange)))

\* The filter callback with its checks run in the given order, each returning false
\* at once when it fails.
RECURSIVE KeepIn(_, _, _)
KeepIn(order, trade, f) ==
  IF order = <<>> THEN TRUE
  ELSE IF ~FilterCheck(Head(order), trade, f) THEN FALSE
  ELSE KeepIn(Tail(order), trade, f)

CodeOrder == <<1, 2, 3, 4, 5, 6, 7>>

\* trades.filter(callback): a new array, the buffer is not touched.
FilterIn(order, buf, f) ==
  LET Keep(trade) == KeepIn(order, trade, f) IN SelectSeq(buf, Keep)

FilteredTrades == FilterIn(CodeOrder, trades, filters)

\* What the user types into the panel's inputs.
FilterTexts == {<<>>, <<"b">>, <<"e", "T">>}
PriceBounds == {<<>>, <<"0", "1">>, <<"2">>}
SizeBounds == {<<>>, <<"2">>}

\* onChange of the symbol and exchange inputs
setFilterText(field, text) ==
  /\ Idle
  /\ variant = "feed"
  /\ Step([World EXCEPT !.filters[field] = text], <<"setFilterText", 0>>)

\* onChange of the four number inputs
setFilterBound(field, text) ==
  /\ Idle
  /\ variant = "feed"
  /\ Step([World EXCEPT !.filters[field] = text], <<"setFilterBound", 0>>)

\* onCheckedChange of the Buy and Sell checkboxes: a checked box is unchecked, an
\* unchecked one is checked.
toggleSide(side) ==
  /\ Idle
  /\ variant = "feed"
  /\ LET Other(s) == s # side
         sides == IF \E k \in 1..Len(filters.sides) : filters.sides[k] = side
                    THEN SelectSeq(filters.sides, Other)
                    ELSE Append(filters.sides, side)
     IN Step([World EXCEPT !.filters.sides = sides], <<"toggleSide", 0>>)

clearFilters ==
  /\ Idle
  /\ variant = "feed"
  /\ Step([World EXCEPT !.filters = DefaultFilters], <<"clearFilters", 0>>)

\* ------------------------------------------------------------ handleTradeData
\* A JavaScript value is modelled by its JSON structure:
\*   [k |-> "object", f |-> [field |-> value]]   fields absent from DOMAIN are undefined
\*   [k |-> "array", a |-> <<...>>], [k |-> "null"], [k |-> "string", s |-> text]
\* and the text of a string by an envelope prefix and a body that either is the JSON
\* text of a value or is no JSON at all:
\*   [prefix |-> "" | "42", json |-> TRUE, v |-> value], [prefix |-> .., json |-> FALSE]
\* The s of a message that is a string is such a text; the s of a string inside a
\* decoded value (an event name) is its characters.

Obj(f) == [k |-> "object", f |-> f]
Str(t) == [k |-> "string", s |-> t]
JsonText(v) == [prefix |-> "", json |-> TRUE, v |-> v]
Garbage == [prefix |-> "", json |-> FALSE]

\* JSON.stringify
Stringify(v) == Str(JsonText(v))

\* JSON.parse(text) does not throw
Parses(t) == t.prefix = "" /\ t.json

Has(o, f) == f \in DOMAIN o
TruthyS(o, f) == Has(o, f) /\ o[f] # ""
TruthyN(o, f) == Has(o, f) /\ o[f] # 0
TruthyB(o, f) == Has(o, f) /\ o[f]
OrS(o, f, d) == IF TruthyS(o, f) THEN o[f] ELSE d
OrN(o, f, d) == IF TruthyN(o, f) THEN o[f] ELSE d

\* `${name || 'UNK'}/${symbol || 'USD'}` where symbol is falsy
ComposedSymbol(o) ==
  IF TruthyS(o, "name") THEN <<o["name"], "/", "USD">> ELSE <<"UNK", "/", "USD">>

\* The Trade the feed variant maps an object to (part_000 lines 177-199). A symbol is
\* a tuple of string pieces, so that a template string can be told from a literal.
FeedTrade(o, uuid, now) ==
  IF TruthyS(o, "id") /\ TruthyN(o, "timestamp") /\ TruthyS(o, "symbol") /\ Has(o, "price")
    THEN [id |-> o["id"], timestamp |-> o["timestamp"], symbol |-> <<o["symbol"]>>,
          price |-> o["price"], size |-> OrN(o, "size", 0),
          side |-> OrS(o, "side", "buy"), exchange |-> OrS(o, "exchange", "unknown")]
    ELSE [id |-> OrS(o, "signature", OrS(o, "id", uuid)),
          timestamp |-> OrN(o, "timestamp", now),
          symbol |-> IF TruthyS(o, "symbol") THEN <<o["symbol"]>> ELSE ComposedSymbol(o),
          price |-> OrN(o, "price", OrN(o, "sol_amount", 0)),
          size |-> OrN(o, "size", OrN(o, "token_amount", 0)),
          side |-> IF TruthyS(o, "side") THEN o["side"]
                   ELSE IF TruthyB(o, "is_buy") THEN "buy" ELSE "sell",
          exchange |-> OrS(o, "exchange", "unknown")]

\* The Trade the page variant maps an object to (page.tsx lines 141-154).
PageTrade(o, now) ==
  [signature |-> OrS(o, "signature", "unknown"),
   timestamp |-> OrN(o, "timestamp", now),
   name |-> OrS(o, "name", "Unknown Token"),
   symbol |-> <<OrS(o, "symbol", "UNK")>>,
   sol_amount |-> OrN(o, "sol_amount", 0),
   token_amount |-> OrN(o, "token_amount", 0),
   usd_market_cap |-> OrN(o, "usd_market_cap", 0),
   market_cap |-> OrN(o, "market_cap", 0),
   is_buy |-> TruthyB(o, "is_buy"),
   user |-> OrS(o, "user", "unknown"),
   creator |-> OrS(o, "creator", "unknown"),
   nsfw |-> TruthyB(o, "nsfw")]

\* Mutant: the new trade is appended behind the entries that are kept.
Push_Append(t, buf) == SubSeq(buf, 1, IF Len(buf) < SliceEnd THEN Len(buf) ELSE SliceEnd) \o <<t>>

\* Mutant: the new trade is prepended and nothing is sliced off.
Push_NoSlice(t, buf) == <<t>> \o buf

\* setTrades((prevTrades) => [trade, ...prevTrades.slice(0, 99)])
Push(t, buf) == <<t>> \o SubSeq(buf, 1, IF Len(buf) < SliceEnd THEN Len(buf) ELSE SliceEnd)

\* A property read on the decoded value: null throws (caught by the outer try), an
\* array or a primitive has none of the fields.
FieldsOf(v) == IF v.k = "object" THEN v.f ELSE <<>>

\* The decoding step of the feed variant: <<TRUE, value>> or <<FALSE>> when the
\* message is skipped.
FeedDecode(d) ==
  IF d.k = "string"
    THEN IF Parses(d.s) THEN <<TRUE, d.s.v>> ELSE <<FALSE>>
    ELSE <<TRUE, d>>

\* The decoding step of the page variant, with the "42[" envelope.
PageDecode(d) ==
  IF d.k = "string" /\ d.s.prefix = "42" /\ (d.s.json => d.s.v.k = "array")
    THEN IF ~d.s.json THEN <<FALSE>>
         ELSE IF Len(d.s.v.a) >= 2 /\ d.s.v.a[1].k = "string"
                                      /\ d.s.v.a[1].s = "tradeCreated"
                THEN <<TRUE, d.s.v.a[2]>>
                ELSE <<TRUE, d>>
    ELSE IF d.k = "string"
      THEN IF Parses(d.s) THEN <<TRUE, d.s.v>> ELSE <<FALSE>>
      ELSE <<TRUE, d>>

\* Mutant: a payload that decoded to null is mapped like an object without fields
\* instead of raising the TypeError that the outer try catches.
HandleTradeData_NullAsEmpty(buf, d, uuid, now) ==
  LET dec == IF variant = "page" THEN PageDecode(d) ELSE FeedDecode(d)
  IN IF ~dec[1] THEN buf
     ELSE IF variant = "page"
       THEN Push(PageTrade(FieldsOf(dec[2]), now), buf)
       ELSE Push(FeedTrade(FieldsOf(dec[2]), uuid, now), buf)

\* Mutant: the identifier has no fallback and the mapped record is pushed without the
\* validation of its essential fields.
HandleTradeData_Unvalidated(buf, d, uuid, now) ==
  LET dec == IF variant = "page" THEN PageDecode(d) ELSE FeedDecode(d)
  IN IF ~dec[1] \/ dec[2].k = "null" THEN buf
     ELSE LET o == FieldsOf(dec[2])
          IN IF variant = "page"
               THEN Push([PageTrade(o, now) EXCEPT !.signature = OrS(o, "signature", "")], buf)
               ELSE Push([FeedTrade(o, uuid, now) EXCEPT !.id = OrS(o, "id", "")], buf)

\* handleTradeData: the buffer after the message d.
HandleTradeData(buf, d, uuid, now) ==
  LET dec == IF variant = "page" THEN PageDecode(d) ELSE FeedDecode(d)
  IN IF ~dec[1] \/ dec[2].k = "null" THEN buf
     ELSE IF variant = "page"
       THEN LET t == PageTrade(FieldsOf(dec[2]), now)
            IN IF t.signature # "" /\ t.timestamp # 0 /\ t.name # "" /\ t.symbol # <<"">>
                 THEN Push(t, buf) ELSE buf
       ELSE LET t == FeedTrade(FieldsOf(dec[2]), uuid, now)
            IN IF t.id # "" /\ t.timestamp # 0 /\ t.symbol # <<"">>
                 THEN Push(t, buf) ELSE buf

\* The handler run n times on the same message (once per registered listener).
RECURSIVE HandleTimes(_, _, _, _, _)
HandleTimes(n, buf, d, uuid, now) ==
  IF n = 0 THEN buf ELSE HandleTimes(n - 1, HandleTradeData(buf, d, uuid, now), d, uuid, now)

\* What the producers send (README generateMockTrade; the page's own schema).
NativeTrade ==
  Obj([id |-> "t1", timestamp |-> 1, symbol |-> "BTC/USD", price |-> 1, size |-> 1,
       side |-> "sell", exchange |-> "E"])
PumpTrade ==
  Obj([signature |-> "s1", timestamp |-> 1, name |-> "Bonk", symbol |-> "BONK",
       sol_amount |-> 2, token_amount |-> 3, is_buy |-> TRUE])
Times == {7}

\* crypto.randomUUID(): some string that no trade of the buffer carries.
Uuids == {"uuid-1", "uuid-2"}
UsedIds(buf) ==
  {IF "id" \in DOMAIN buf[k] THEN buf[k].id ELSE buf[k].signature : k \in 1..Len(buf)}
FreshUuids(buf) == Uuids \ UsedIds(buf)

\* Messages a Socket.IO event carries (decoded values) and a WebSocket frame carries (text).
SioPayloads == {IF variant = "page" THEN PumpTrade ELSE NativeTrade}
WsFrames == {Stringify(IF variant = "page" THEN PumpTrade ELSE NativeTrade), Str(Garbage)}

NoMsg == [k |-> "none"]
Call(d, uuid, now) == [k |-> "call", d |-> d, uuid |-> uuid, now |-> now]

\* A trade event on a connected Socket.IO socket: every registered listener runs.
\* With keep, the argument is remembered in msg.
OnSioEvent(i, d, keep) ==
  /\ Idle
  /\ sio[i] = "connected"
  /\ pushes < MaxPush
  /\ \E uuid \in FreshUuids(trades), now \in Times :
       LET buf == HandleTimes(sioRegs[i], trades, d, uuid, now)
       IN Step([World EXCEPT !.trades = buf,
                             !.pushes = @ + (IF buf = trades THEN 0 ELSE sioRegs[i]),
                             !.msg = IF keep THEN Call(d, uuid, now) ELSE @],
               <<"SioEvent", i>>)

SioEvent(i, d) == OnSioEvent(i, d, FALSE)

\* ws.onmessage. With keep, the argument is remembered in msg.
OnWsMessage(i, d, keep) ==
  /\ Idle
  /\ ws[i] = "OPEN"
  /\ pushes < MaxPush
  /\ \E uuid \in FreshUuids(trades), now \in Times :
       LET buf == HandleTradeData(trades, d, uuid, now)
       IN Step([World EXCEPT !.trades = buf,
                             !.pushes = @ + (IF buf = trades THEN 0 ELSE 1),
                             !.msg = IF keep THEN Call(d, uuid, now) ELSE @],
               <<"WsMessage", i>>)

WsMessage(i, d) == OnWsMessage(i, d, FALSE)

\* ------------------------------------------------------------------ mock mode

MockTrades ==
  {[signature |-> "mockABC123", timestamp |-> 7, name |-> "Bonk", symbol |-> <<"BONK">>,
    sol_amount |-> 2, token_amount |-> 3, usd_market_cap |-> 4, market_cap |-> 5,
    is_buy |-> TRUE, user |-> "u", creator |-> "c", nsfw |-> FALSE]}

MockEnabled == variant = "page" /\ ~(connectionStatus = "connected" \/ isMockMode)

StartMockMode(w, m, init) ==
  [w EXCEPT !.isMockMode = TRUE, !.connectionStatus = "connected", !.error = <<>>,
            !.trades = init, !.pushes = 0, !.mock[m] = "running", !.mockInterval = m]

startMockMode(m) ==
  /\ Idle
  /\ MockEnabled
  /\ mock[m] = "none"
  /\ \A n \in Mocks : n < m => mock[n] # "none"
  /\ \E t \in MockTrades :
       Step(StartMockMode(World, m, [k \in 1..InitialMockTrades |-> t]), <<"startMockMode", m>>)

\* the setInterval callback
MockTick(m) ==
  /\ Idle
  /\ mock[m] = "running"
  /\ pushes < MaxPush
  /\ \E t \in MockTrades :
       Step([World EXCEPT !.trades = Push(t, @), !.pushes = @ + 1], <<"MockTick", m>>)

\* Mutant: stopping mock mode resets the flags and leaves the interval running.
StopMockMode_KeepsTimer(w) ==
  [w EXCEPT !.isMockMode = FALSE, !.connectionStatus = "disconnected"]

StopMockMode(w) ==
  LET w1 == [w EXCEPT !.isMockMode = FALSE, !.connectionStatus = "disconnected"]
  IN IF w.mockInterval # 0
       THEN [w1 EXCEPT !.mock[w.mockInterval] = "cleared", !.mockInterval = 0]
       ELSE w1

stopMockMode ==
  /\ Idle
  /\ variant = "page"
  /\ isMockMode
  /\ Step(StopMockMode(World), <<"stopMockMode", 0>>)

\* ------------------------------------------------------------------ the rest

\* Mutant: clearing the trades also resets the filter panel.
clearTradesList_ResetsFilters ==
  /\ Idle
  /\ Len(trades) > 0
  /\ Step([World EXCEPT !.trades = <<>>, !.pushes = 0, !.filters = DefaultFilters],
          <<"clearTradesList", 0>>)

clearTradesList ==
  /\ Idle
  /\ Len(trades) > 0
  /\ Step([World EXCEPT !.trades = <<>>, !.pushes = 0], <<"clearTradesList", 0>>)

Init ==
  /\ variant \in Variants
  /\ wsUrl = ""
  /\ socket = 0
  /\ webSocket = 0
  /\ connectionType = "null"
  /\ connectionStatus = "disconnected"
  /\ trades = <<>>
  /\ error = <<>>
  /\ isMockMode = FALSE
  /\ mockInterval = 0
  /\ mock = [m \in Mocks |-> "none"]
  /\ pc = [i \in Invs |-> "none"]
  /\ sio = [i \in Invs |-> "none"]
  /\ sioTimer = [i \in Invs |-> FALSE]
  /\ sioRegs = [i \in Invs |-> 0]
  /\ sioDisc = [i \in Invs |-> FALSE]
  /\ sioErr = [i \in Invs |-> "none"]
  /\ ws = [i \in Invs |-> "none"]
  /\ wsTimer = [i \in Invs |-> FALSE]
  /\ wsP = [i \in Invs |-> "none"]
  /\ errReports = [i \in Invs |-> 0]
  /\ pushes = 0
  /\ task = 0
  /\ msg = NoMsg
  /\ filters = DefaultFilters
  /\ server = NoServer
  /\ last = <<"init", 0>>

Next ==
  \/ \E u \in Urls : setWsUrl(u)
  \/ connectSmartBlank
  \/ \E i \in Invs : connectSmart(i)
  \/ \E i \in Invs : SioConnect(i)
  \/ \E i \in Invs : SioConnectError(i)
  \/ \E i \in Invs : SioTimeout(i)
  \/ \E i \in Invs, r \in BOOLEAN : SioServerClose(i, r)
  \/ \E i \in Invs : WsOpen(i)
  \/ \E i \in Invs : WsError(i)
  \/ \E i \in Invs : WsTimeout(i)
  \/ \E i \in Invs : WsClose(i)
  \/ \E i \in Invs : WsServerClose(i)
  \/ disconnectSmart
  \/ \E i \in Invs : \E d \in SioPayloads : SioEvent(i, d)
  \/ \E i \in Invs : \E d \in WsFrames : WsMessage(i, d)
  \/ \E m \in Mocks : startMockMode(m)
  \/ \E m \in Mocks : MockTick(m)
  \/ stopMockMode
  \/ clearTradesList

Spec == Init /\ [][Next]_vars

\* ------------------------------------------------- the normalizer on its own
\* handleTradeData applied to the payload shapes its branches distinguish, in a
\* session that is connected over either transport.

\* Every field handleTradeData reads (part_000 lines 178-198), with truthy values
\* and with the falsy values of the numeric and boolean fields.
Full1 ==
  [id |-> "x", signature |-> "s", timestamp |-> 1, symbol |-> "BTC/USD", name |-> "Bonk",
   price |-> 1, sol_amount |-> 2, size |-> 1, token_amount |-> 3, side |-> "buy",
   is_buy |-> TRUE, exchange |-> "E"]
Full0 == [Full1 EXCEPT !.price = 0, !.size = 0, !.side = "sell", !.is_buy = FALSE]

Only(full, D) == [f \in D |-> full[f]]

\* The generator's schema (README generateMockTrade).
NativeFields == {"id", "timestamp", "symbol", "price", "size", "side", "exchange"}

\* Which fields a payload carries.
IdShapes ==
  {I \cup R : I \in SUBSET {"id", "signature"},
              R \in {{"timestamp", "symbol", "price"}, {"symbol", "price"},
                     {"timestamp", "price"}, {"timestamp", "symbol"}, {}}}
SideShapes ==
  {S \cup R : S \in SUBSET {"side", "is_buy"},
              R \in {{"id", "timestamp", "symbol", "price"}, {"id", "timestamp", "symbol"}}}
SymbolShapes == {S \cup {"id", "timestamp", "price"} : S \in SUBSET {"symbol", "name"}}
AmountShapes ==
  {A \cup R : A \in SUBSET {"price", "sol_amount", "size", "token_amount"},
              R \in {{"id", "timestamp", "symbol"}, {"timestamp", "symbol"}}}
OptionalShapes ==
  {O \cup {"id", "timestamp", "symbol"} : O \in SUBSET {"price", "size", "side", "exchange"}}
Shapes ==
  IdShapes \cup SideShapes \cup SymbolShapes \cup AmountShapes \cup OptionalShapes
    \cup {NativeFields}

\* The first message of the README server.
Welcome ==
  Obj([type |-> "welcome", message |-> "Connected to Trading WebSocket Server",
       timestamp |-> 7])

Null == [k |-> "null"]
Array(a) == [k |-> "array", a |-> a]

\* The text "42" followed by the JSON text of v, and "42" followed by no JSON.
Prefixed(v) == [prefix |-> "42", json |-> TRUE, v |-> v]
PrefixedGarbage == [prefix |-> "42", json |-> FALSE]
Envelope(v) == Str(Prefixed(Array(<<[k |-> "string", s |-> "tradeCreated"], v>>)))

\* Frames "42[...]" that are not ["tradeCreated", payload]: another event name, the
\* event name alone, an empty array, and a payload in first place.
OtherEnvelopes ==
  {Str(Prefixed(Array(a))) :
     a \in {<<[k |-> "string", s |-> "trade"], PumpTrade>>,
            <<[k |-> "string", s |-> "tradeCreated"]>>,
            <<>>,
            <<PumpTrade, PumpTrade>>}}

Payloads ==
  {Obj(Only(full, D)) : full \in {Full1, Full0}, D \in Shapes}
    \cup {Welcome, NativeTrade, PumpTrade}

SioPayloadsN == Payloads \cup {Null}
WsFramesN ==
  {Stringify(v) : v \in Payloads \cup {Null}}
    \cup {Envelope(v) : v \in {Obj(Only(Full1, NativeFields)), PumpTrade, Null}}
    \cup {Str(Garbage), Str(PrefixedGarbage)}
    \cup OtherEnvelopes

\* The state after invocation 1 connected over transport t, with buf in the buffer.
Session(t, buf) ==
  /\ variant \in Variants
  /\ wsUrl = "wss://host"
  /\ socket = IF t = "socket.io" THEN 1 ELSE 0
  /\ webSocket = IF t = "websocket" THEN 1 ELSE 0
  /\ connectionType = t
  /\ connectionStatus = "connected"
  /\ trades = buf
  /\ error = <<>>
  /\ isMockMode = FALSE
  /\ mockInterval = 0
  /\ mock = [m \in Mocks |-> "none"]
  /\ pc = [i \in Invs |-> IF i = 1 THEN "done" ELSE "none"]
  /\ sio = [i \in Invs |-> IF i # 1 THEN "none"
                           ELSE IF t = "socket.io" THEN "connected" ELSE "closed"]
  /\ sioTimer = [i \in Invs |-> FALSE]
  /\ sioRegs = [i \in Invs |-> IF i = 1 /\ t = "socket.io" THEN 1 ELSE 0]
  /\ sioDisc = [i \in Invs |-> i = 1 /\ t = "socket.io" /\ variant = "page"]
  /\ sioErr = [i \in Invs |-> "none"]
  /\ ws = [i \in Invs |-> IF i = 1 /\ t = "websocket" THEN "OPEN" ELSE "none"]
  /\ wsTimer = [i \in Invs |-> FALSE]
  /\ wsP = [i \in Invs |-> IF i = 1 /\ t = "websocket" THEN "resolved" ELSE "none"]
  /\ errReports = [i \in Invs |-> 0]
  /\ pushes = 0
  /\ task = 0
  /\ msg = NoMsg
  /\ filters = DefaultFilters
  /\ server = NoServer
  /\ last = <<IF t = "socket.io" THEN "SioConnect" ELSE "WsOpen", 1>>

InitN == \E t \in {"socket.io", "websocket"} : Session(t, <<>>)

NextN ==
  \/ \E d \in SioPayloadsN : OnSioEvent(1, d, TRUE)
  \/ \E d \in WsFramesN : OnWsMessage(1, d, TRUE)
  \/ clearTradesList

SpecN == InitN /\ [][NextN]_vars

\* ----------------------------------------------------- the buffer at its cap
\* One session whose buffer was filled by earlier messages, with the events that push
\* into the buffer, replace it or end the session.

\* The k-th trade an earlier message left in the buffer.
Filler(k) ==
  IF variant = "page"
    THEN [signature |-> "f", timestamp |-> k, name |-> "Bonk", symbol |-> <<"BONK">>,
          sol_amount |-> 2, token_amount |-> 3, usd_market_cap |-> 0, market_cap |-> 0,
          is_buy |-> TRUE, user |-> "unknown", creator |-> "unknown", nsfw |-> FALSE]
    ELSE [id |-> "f", timestamp |-> k, symbol |-> <<"BTC/USD">>, price |-> 1, size |-> 1,
          side |-> "buy", exchange |-> "E"]

\* A buffer of n earlier trades, the newest first.
Filled(n) == [k \in 1..n |-> Filler(n + 1 - k)]

InitB ==
  \E t \in {"socket.io", "websocket"}, n \in {SliceEnd - 1, SliceEnd + 1} :
    Session(t, Filled(n))

NextB ==
  \/ \E d \in SioPayloads : OnSioEvent(1, d, TRUE)
  \/ \E d \in WsFrames : OnWsMessage(1, d, TRUE)
  \/ \E r \in BOOLEAN : SioServerClose(1, r)
  \/ SioConnect(1)
  \/ WsServerClose(1)
  \/ WsClose(1)
  \/ disconnectSmart
  \/ \E m \in Mocks : startMockMode(m)
  \/ \E m \in Mocks : MockTick(m)
  \/ stopMockMode
  \/ clearTradesList
  \/ \E side \in {"buy", "sell"} : toggleSide(side)

SpecB == InitB /\ [][NextB]_vars

\* ------------------------------------------------------- the filter on its own
\* The filter panel used on buffers whose trades differ in every filtered field.

TradeA ==
  [id |-> "a", timestamp |-> 1, symbol |-> <<"B", "T">>, price |-> 1, size |-> 3,
   side |-> "buy", exchange |-> <<"K", "b">>]
TradeB ==
  [id |-> "b", timestamp |-> 2, symbol |-> <<"E", "T">>, price |-> 2, size |-> 1,
   side |-> "sell", exchange |-> <<"B">>]
TradeC ==
  [id |-> "c", timestamp |-> 3, symbol |-> <<"b", "e", "t">>, price |-> 0, size |-> 2,
   side |-> "buy", exchange |-> <<"e">>]
TradeD ==
  [id |-> "d", timestamp |-> 4, symbol |-> <<"T">>, price |-> 3, size |-> 0,
   side |-> "sell", exchange |-> <<"k">>]

BuffersF == {<<TradeA, TradeB, TradeC, TradeD>>, <<TradeD, TradeC, TradeB, TradeB>>}

InitF ==
  /\ \E buf \in BuffersF : Session("websocket", buf)
  /\ variant = "feed"

NextF ==
  \/ \E field \in {"symbol", "exchange"}, text \in FilterTexts : setFilterText(field, text)
  \/ \E field \in {"priceMin", "priceMax"}, text \in PriceBounds : setFilterBound(field, text)
  \/ \E field \in {"sizeMin", "sizeMax"}, text \in SizeBounds : setFilterBound(field, text)
  \/ \E side \in {"buy", "sell"} : toggleSide(side)
  \/ clearFilters

SpecF == InitF /\ [][NextF]_vars

\* ------------------------------------------------- the negotiator under fairness
\* part_000 with the events the runtime is bound to deliver: a pending handshake
\* timer fires unless an open or error event of its attempt comes first, and the
\* close event of a failed connection follows its error event.

InitL ==
  /\ Init
  /\ variant = "feed"

NextL ==
  \/ \E u \in Urls : setWsUrl(u)
  \/ connectSmartBlank
  \/ \E i \in Invs : connectSmart(i)
  \/ \E i \in Invs : SioConnect(i)
  \/ \E i \in Invs : SioConnectError(i)
  \/ \E i \in Invs : SioTimeout(i)
  \/ \E i \in Invs, r \in BOOLEAN : SioServerClose(i, r)
  \/ \E i \in Invs : WsOpen(i)
  \/ \E i \in Invs : WsError(i)
  \/ \E i \in Invs : WsTimeout(i)
  \/ \E i \in Invs : WsClose(i)
  \/ \E i \in Invs : WsServerClose(i)
  \/ disconnectSmart

\* A handshake timer that stays pending fires (an open or error event that comes
\* first clears it); a close event that is due is delivered.
AttemptEvents ==
  \A i \in Invs :
    /\ WF_vars(SioTimeout(i))
    /\ WF_vars(WsTimeout(i))
    /\ WF_vars(WsClose(i))

SpecL == InitL /\ [][NextL]_vars /\ AttemptEvents

\* ------------------------------------------------------------ the producer
\* The WebSocket server of the README: wss.on('connection') and the handlers and the
\* timer it installs for each connection.

\* generateMockTrade(): uuidv4(), Date.now() and the random picks are free choices;
\* the price is the symbol's base price.
ProducerTrades ==
  {Obj([id |-> "uuid-1", timestamp |-> 8, symbol |-> sym,
        price |-> IF sym = "BTC/USD" THEN 50000 ELSE 3500, size |-> 1, side |-> side,
        exchange |-> "Binance"]) :
     sym \in {"BTC/USD", "ETH/USD"}, side \in {"buy", "sell"}}

\* Mutant: the connection handler starts the timer without sending the welcome.
OnConnection_NoWelcome ==
  [readyState |-> "OPEN", tradeInterval |-> "running", sent |-> <<>>]

\* The body of wss.on('connection'): ws.send(welcome), then setInterval.
OnConnection ==
  [readyState |-> "OPEN", tradeInterval |-> "running", sent |-> <<Stringify(Welcome)>>]

\* Mutant: the timer callback sends whatever the readyState is.
OnTradeInterval_Unguarded(conn, trade) ==
  [conn EXCEPT !.sent = Append(@, Stringify(trade))]

\* The setInterval callback
OnTradeInterval(conn, trade) ==
  IF conn.readyState = "OPEN"
    THEN [conn EXCEPT !.sent = Append(@, Stringify(trade))]
    ELSE conn

\* Mutant: the close handler leaves the timer running.
OnProducerClose_KeepsTimer(conn) == conn

\* ws.on('close') and ws.on('error'): clearInterval(tradeInterval)
OnProducerClose(conn) == [conn EXCEPT !.tradeInterval = "cleared"]
OnProducerError(conn) == [conn EXCEPT !.tradeInterval = "cleared"]

ProducerStep(c, conn, name) ==
  /\ server' = [server EXCEPT ![c] = conn]
  /\ last' = <<name, 0>>
  /\ UNCHANGED clientVars

\* wss 'connection' event
Connection(c) ==
  /\ server[c].readyState = "none"
  /\ ProducerStep(c, OnConnection, "Connection")

\* the interval timer fires
TradeInterval(c) ==
  /\ server[c].tradeInterval = "running"
  /\ Len(server[c].sent) <= MaxSent
  /\ \E trade \in ProducerTrades :
       ProducerStep(c, OnTradeInterval(server[c], trade), "TradeInterval")

\* The closing handshake starts (a close frame arrives): no handler runs yet.
ProducerClosing(c) ==
  /\ server[c].readyState = "OPEN"
  /\ ProducerStep(c, [server[c] EXCEPT !.readyState = "CLOSING"], "ProducerClosing")

\* 'close' event of the connection
ProducerClose(c) ==
  /\ server[c].readyState \in {"OPEN", "CLOSING"}
  /\ ProducerStep(c, OnProducerClose([server[c] EXCEPT !.readyState = "CLOSED"]),
                  "ProducerClose")

\* 'error' event of the connection; whether the library has already left OPEN when
\* it emits the event is not fixed by the source.
ProducerError(c) ==
  /\ server[c].readyState \in {"OPEN", "CLOSING"}
  /\ \E r \in {server[c].readyState, "CLOSING"} :
       ProducerStep(c, OnProducerError([server[c] EXCEPT !.readyState = r]),
                    "ProducerError")

InitP ==
  /\ Init
  /\ variant = "feed"

NextP ==
  \/ \E c \in Clients : Connection(c)
  \/ \E c \in Clients : TradeInterval(c)
  \/ \E c \in Clients : ProducerClosing(c)
  \/ \E c \in Clients : ProducerClose(c)
  \/ \E c \in Clients : ProducerError(c)

SpecP == InitP /\ [][NextP]_vars

\* ===================================================================== claims

\* C1 (component of part_000): when the Socket.IO handshake of invocation i completes
\* (the first run of its 'connect' handler), the status is connected, the Socket.IO
\* handle is the active transport and the type is socket.io; and an invocation whose
\* Socket.IO handshake completed never makes a WebSocket attempt.
C1_SocketIOPromoted ==
  variant = "feed" =>
    \A i \in Invs :
      /\ (last = <<"SioConnect", i>> /\ sioRegs[i] = 1) =>
            /\ connectionStatus = "connected"
            /\ socket = i /\ sio[i] = "connected"
            /\ connectionType = "socket.io"
            /\ pc[i] = "done"
      /\ sioRegs[i] > 0 => ws[i] = "none"

C1_Witness ==
  /\ variant = "feed"
  /\ \E i \in Invs : /\ last = <<"SioConnect", i>> /\ sioRegs[i] = 1
                     /\ socket = i /\ connectionStatus = "connected"
                     /\ connectionType = "socket.io" /\ ws[i] = "none"

\* C2 (component of part_000): when the Socket.IO attempt of invocation i has failed
\* and its WebSocket then opens, the status is connected, the WebSocket handle is the
\* active transport and the type is websocket.
C2_WebSocketPromoted ==
  variant = "feed" =>
    \A i \in Invs : last = <<"WsOpen", i>> =>
       /\ sio[i] = "closed" /\ sioRegs[i] = 0
       /\ connectionStatus = "connected"
       /\ webSocket = i /\ ws[i] = "OPEN"
       /\ connectionType = "websocket"
       /\ pc[i] = "done"

C2_Witness ==
  /\ variant = "feed"
  /\ \E i \in Invs : /\ last = <<"WsOpen", i>> /\ sio[i] = "closed" /\ ws[i] = "OPEN"
                     /\ webSocket = i /\ connectionStatus = "connected"
                     /\ connectionType = "websocket"

\* C3: when both attempts of invocation i have failed (the WebSocket promise rejects:
\* pc goes from "ws" to "done"), the status becomes error and the invocation has
\* reported exactly one error message, which names the reason of the Socket.IO
\* failure and the reason of the WebSocket failure.
C3_BothFailedReported ==
  [][\A i \in Invs : (pc[i] = "ws" /\ pc'[i] = "done" /\ wsP'[i] = "rejected") =>
        /\ connectionStatus' = "error"
        /\ errReports'[i] = 1
        /\ Len(error') = 4
        /\ error'[2] = SocketMsg(sioErr[i])
        /\ error'[4] = WsMsg(IF wsTimer[i] /\ task' = 0 THEN "timeout" ELSE "error_event")]_vars

\* C4: once the WebSocket attempt of invocation i has failed (its promise rejected),
\* no later callback of that socket changes the status, the handles, the type or
\* the buffer.
C4_StaleCallbacksInert ==
  [][\A i \in Invs : (wsP[i] = "rejected" /\ ws'[i] # ws[i]) =>
        UNCHANGED <<connectionStatus, socket, webSocket, connectionType, trades>>]_vars

\* C5 (component of part_000): the two handles are never both set, and at most one
\* transport is open or in flight.
Live(i) == sio[i] \in {"opening", "connected", "reconnecting"}
LiveWs(i) == ws[i] \in {"CONNECTING", "OPEN"}
C5_AtMostOneTransport ==
  variant = "feed" =>
    /\ ~(socket # 0 /\ webSocket # 0)
    /\ Cardinality({i \in Invs : Live(i)}) + Cardinality({i \in Invs : LiveWs(i)}) <= 1

\* C6: the status and the handles agree: connected means exactly one handle is set
\* and the type names it; disconnected means no handle is set and the type is null.
C6_StatusMatchesHandles ==
  /\ connectionStatus = "connected" =>
       \/ socket # 0 /\ webSocket = 0 /\ connectionType = "socket.io"
       \/ socket = 0 /\ webSocket # 0 /\ connectionType = "websocket"
  /\ connectionStatus = "disconnected" =>
       socket = 0 /\ webSocket = 0 /\ connectionType = "null"

\* C7: in every reachable state, disconnectSmart closes the active transport, clears
\* both handles and the type and sets the status to disconnected, and applying it
\* once more to the state it produced changes nothing.
AfterDisconnect(w) == Render(EffectDeps(w), DisconnectSmart(w))
C7_DisconnectIdempotent ==
  Idle =>
    LET w1 == AfterDisconnect(World)
    IN /\ w1.socket = 0 /\ w1.webSocket = 0
       /\ w1.connectionType = "null"
       /\ w1.connectionStatus = "disconnected"
       /\ socket # 0 => w1.sio[socket] = "closed"
       /\ webSocket # 0 => w1.ws[webSocket] \in {"CLOSING", "CLOSED"}
       /\ AfterDisconnect(w1) = w1

\* disconnectSmart has acted on an open WebSocket: it is closing, nothing is left set.
C7_Witness ==
  /\ last = <<"disconnectSmart", 0>>
  /\ connectionStatus = "disconnected" /\ socket = 0 /\ webSocket = 0
  /\ connectionType = "null"
  /\ \E i \in Invs : wsP[i] = "resolved" /\ ws[i] = "CLOSING"

\* C8: when the server (or the network) ends the established active connection, the
\* status becomes disconnected and the handle and the type are cleared, whichever
\* transport is active.
C8_ServerCloseDisconnects ==
  [][\A i \in Invs :
        (\/ last' = <<"SioServerClose", i>> /\ socket = i /\ sio[i] = "connected"
                                     /\ sio'[i] # "connected"
         \/ last' = <<"WsServerClose", i>> /\ webSocket = i /\ ws[i] = "OPEN"
                                    /\ ws'[i] = "CLOSED") =>
           /\ connectionStatus' = "disconnected"
           /\ socket' = 0 /\ webSocket' = 0
           /\ connectionType' = "null"]_vars

\* C9 (component of part_000): no connection attempt starts by itself: no socket is
\* ever found reconnecting, and no handshake is in flight while no invocation of
\* connectSmart is awaiting one.
C9_NoAutomaticRetry ==
  variant = "feed" =>
    \A i \in Invs : /\ sio[i] # "reconnecting"
                    /\ sio[i] = "opening" => pc[i] = "sio"
                    /\ ws[i] = "CONNECTING" => pc[i] = "ws"

\* C10: right after connectSmart has started invocation i the status is connecting,
\* only the Socket.IO attempt is open and no attempt has completed; and the WebSocket
\* of an invocation exists only once the Socket.IO socket of that invocation has been
\* closed and its timer is gone: the two attempts of one invocation are never in
\* flight together.
C10_AttemptsSequential ==
  \A i \in Invs :
    /\ last = <<"connectSmart", i>> =>
          /\ connectionStatus = "connecting"
          /\ pc[i] = "sio" /\ sio[i] = "opening" /\ sioTimer[i]
          /\ ws[i] = "none"
    /\ ws[i] # "none" => sio[i] = "closed" /\ ~sioTimer[i]
    /\ ~(sio[i] = "opening" /\ ws[i] = "CONNECTING")

C10_Witness ==
  \E i \in Invs : /\ last = <<"SioTimeout", i>>
                  /\ ws[i] = "CONNECTING" /\ pc[i] = "ws" /\ sio[i] = "closed"
                  /\ connectionStatus = "connecting"

\* ---------------------------------------------------------------- normalizer

\* The step that ends in this state handed msg.d to handleTradeData.
Delivered == msg.k = "call" /\ last[1] \in {"SioEvent", "WsMessage"}

IsTradeCreated(v) == v.k = "string" /\ v.s = "tradeCreated"

\* d is a string that is no JSON, a prefixed frame whose remainder is no JSON, or it
\* decodes to null (bare, as JSON text, or as the payload of the envelope).
DecodeFails(d) ==
  \/ d.k = "null"
  \/ d.k = "string" /\ ~d.s.json
  \/ d.k = "string" /\ d.s.json /\ d.s.prefix = "" /\ d.s.v.k = "null"
  \/ /\ d.k = "string" /\ d.s.json /\ d.s.prefix = "42" /\ d.s.v.k = "array"
     /\ Len(d.s.v.a) >= 2 /\ IsTradeCreated(d.s.v.a[1]) /\ d.s.v.a[2].k = "null"

\* C11: a message whose decoding fails is discarded: the step that delivers it leaves
\* the buffer, the status, the handles, the type and the reported error as they were,
\* the transport stays attached, and a producer trade delivered right after a
\* discarded message is pushed.
C11_DecodeFailureDiscarded ==
  [][/\ (msg'.k = "call" /\ last'[1] \in {"SioEvent", "WsMessage"} /\ DecodeFails(msg'.d))
          => /\ UNCHANGED <<trades, connectionStatus, socket, webSocket, connectionType,
                            error, sio, ws>>
     /\ (Delivered /\ DecodeFails(msg.d) /\ msg'.k = "call"
           /\ msg'.d \in {NativeTrade, Stringify(NativeTrade), PumpTrade, Stringify(PumpTrade)})
          => /\ Len(trades') = Len(trades) + 1
             /\ \A k \in 1..Len(trades) : trades'[k + 1] = trades[k]]_vars

C11_Witness ==
  /\ Delivered /\ DecodeFails(msg.d) /\ msg.d = Str(PrefixedGarbage)
  /\ trades = <<>> /\ connectionStatus = "connected" /\ error = <<>>
  /\ webSocket = 1 /\ ws[1] = "OPEN"

\* d is an object, or the JSON text of one; PayloadOf is that object's fields.
IsObjectMessage(d) ==
  \/ d.k = "object"
  \/ d.k = "string" /\ d.s.json /\ d.s.prefix = "" /\ d.s.v.k = "object"
PayloadOf(d) == IF d.k = "object" THEN d.f ELSE d.s.v.f

\* The identifier of a Trade: id in part_000, signature (the React key) in page.tsx.
Ident(t) == IF "id" \in DOMAIN t THEN t.id ELSE t.signature

\* C12: after a producer message in the generator schema was delivered (as an object
\* or as its JSON string), the newest Trade of the buffer carries the message's id,
\* timestamp and symbol, and its price, size, side and exchange.
C12_ProducerFieldsKept ==
  (Delivered /\ IsObjectMessage(msg.d) /\ DOMAIN PayloadOf(msg.d) = NativeFields) =>
    /\ Len(trades) > 0
    /\ LET t == trades[1]
           o == PayloadOf(msg.d)
       IN /\ Ident(t) = o["id"]
          /\ t.timestamp = o["timestamp"]
          /\ t.symbol = <<o["symbol"]>>
          /\ {"price", "size", "side", "exchange"} \subseteq DOMAIN t
          /\ t.price = o["price"] /\ t.size = o["size"]
          /\ t.side = o["side"] /\ t.exchange = o["exchange"]

\* C13: the identifier of the Trade normalized from an object payload is the payload's
\* id when it has one, else its signature when it has one, else the string generated
\* for this call, which no older trade of the buffer carries.
C13_IdentifierPolicy ==
  (Delivered /\ IsObjectMessage(msg.d)) =>
    /\ Len(trades) > 0
    /\ LET o == PayloadOf(msg.d)
       IN Ident(trades[1]) =
            IF "id" \in DOMAIN o THEN o["id"]
            ELSE IF "signature" \in DOMAIN o THEN o["signature"]
            ELSE msg.uuid
    /\ \A k \in 2..Len(trades) : Ident(trades[k]) # msg.uuid

\* C14 (component of part_000): the side of the Trade normalized from an object payload
\* is the payload's side when it has one, else buy or sell as its is_buy says when it
\* has one, else buy.
C14_SidePolicy ==
  (variant = "feed" /\ Delivered /\ IsObjectMessage(msg.d)) =>
    /\ Len(trades) > 0
    /\ LET o == PayloadOf(msg.d)
       IN trades[1].side =
            IF "side" \in DOMAIN o THEN o["side"]
            ELSE IF "is_buy" \in DOMAIN o THEN (IF o["is_buy"] THEN "buy" ELSE "sell")
            ELSE "buy"

\* C15: the symbol of the Trade normalized from an object payload is the payload's
\* symbol when it has one, else a composition that contains the payload's name when it
\* has one, else exactly "UNK".
C15_SymbolPolicy ==
  (Delivered /\ IsObjectMessage(msg.d)) =>
    /\ Len(trades) > 0
    /\ LET o == PayloadOf(msg.d)
           sym == trades[1].symbol
       IN IF "symbol" \in DOMAIN o THEN sym = <<o["symbol"]>>
          ELSE IF "name" \in DOMAIN o THEN \E k \in 1..Len(sym) : sym[k] = o["name"]
          ELSE sym = <<"UNK">>

\* The payload has the fields by which handleTradeData recognises the native schema.
MatchesNative(o) == {"id", "timestamp", "symbol", "price"} \subseteq DOMAIN o

\* A numeric field counts as present when the payload has it and it is not 0, or it
\* is 0 in a payload that matches the native schema.
PresentN(o, f) == f \in DOMAIN o /\ (o[f] # 0 \/ MatchesNative(o))

\* C16 (component of part_000): the price of the Trade normalized from an object
\* payload is the payload's price when present, else its sol_amount when present, else
\* 0; the size is the payload's size when present, else its token_amount when present,
\* else 0; a price or size of 0 in a payload that matches the native schema is kept.
C16_PriceSizePolicy ==
  (variant = "feed" /\ Delivered /\ IsObjectMessage(msg.d)) =>
    /\ Len(trades) > 0
    /\ LET o == PayloadOf(msg.d)
       IN /\ trades[1].price =
               IF PresentN(o, "price") THEN o["price"]
               ELSE IF PresentN(o, "sol_amount") THEN o["sol_amount"] ELSE 0
          /\ trades[1].size =
               IF PresentN(o, "size") THEN o["size"]
               ELSE IF PresentN(o, "token_amount") THEN o["token_amount"] ELSE 0

\* C17 (component of part_000): the step that delivers a decoded object payload pushes
\* exactly one Trade, whatever optional fields are missing, and an optional field that
\* is missing and has no alternate field in the payload holds its default (price 0,
\* size 0, side buy, exchange unknown).
C17_OptionalFieldsDefaulted ==
  [][(variant = "feed" /\ msg'.k = "call" /\ last'[1] \in {"SioEvent", "WsMessage"}
        /\ IsObjectMessage(msg'.d))
       => /\ Len(trades') = Len(trades) + 1
          /\ \A k \in 1..Len(trades) : trades'[k + 1] = trades[k]
          /\ LET o == PayloadOf(msg'.d)
                 t == trades'[1]
             IN /\ {"price", "sol_amount"} \cap DOMAIN o = {} => t.price = 0
                /\ {"size", "token_amount"} \cap DOMAIN o = {} => t.size = 0
                /\ {"side", "is_buy"} \cap DOMAIN o = {} => t.side = "buy"
                /\ "exchange" \notin DOMAIN o => t.exchange = "unknown"]_vars

\* C18: every Trade in the buffer has a non-empty identifier, a non-zero timestamp and
\* a non-empty symbol.
C18_BufferTradesValid ==
  \A k \in 1..Len(trades) :
    /\ Ident(trades[k]) # ""
    /\ trades[k].timestamp # 0
    /\ trades[k].symbol # <<>> /\ trades[k].symbol # <<"">>

\* A payload without any field was delivered and its Trade is in the buffer.
C18_Witness ==
  /\ Delivered /\ IsObjectMessage(msg.d) /\ DOMAIN PayloadOf(msg.d) = {}
  /\ Len(trades) = 1
  /\ Ident(trades[1]) # "" /\ trades[1].timestamp = msg.now

\* d is the text of a 2-character numeric prefix and the array ["tradeCreated", payload].
IsEnvelope(d) ==
  /\ d.k = "string" /\ d.s.json /\ d.s.prefix = "42" /\ d.s.v.k = "array"
  /\ Len(d.s.v.a) = 2 /\ IsTradeCreated(d.s.v.a[1])

\* C19: after a frame "42" + ["tradeCreated", payload] with an object payload was
\* delivered, the newest Trade is the one the bare payload is normalized to; for the
\* payload of the generator schema it has the payload's seven values.
C19_EnvelopeAsBarePayload ==
  (Delivered /\ IsEnvelope(msg.d) /\ msg.d.s.v.a[2].k = "object") =>
    /\ Len(trades) > 0
    /\ <<trades[1]>> = HandleTradeData(<<>>, msg.d.s.v.a[2], msg.uuid, msg.now)
    /\ msg.d.s.v.a[2] = Obj(Only(Full1, NativeFields)) =>
         trades[1] = [id |-> "x", timestamp |-> 1, symbol |-> <<"BTC/USD">>, price |-> 1,
                      size |-> 1, side |-> "buy", exchange |-> "E"]

\* ------------------------------------------------------------------- buffer

\* C20: the buffer never holds more than 100 trades.
C20_BufferAtMost100 == Len(trades) <= 100

\* A message was pushed into a buffer that held 100 trades: the newest of them (the
\* 100th filler) is now second, the oldest is gone.
C20_Witness ==
  /\ last[1] \in {"SioEvent", "WsMessage"} /\ pushes > 0
  /\ Len(trades) = 100
  /\ trades[2] = Filler(100) /\ trades[100] = Filler(2)

\* The step delivers a message and pushes exactly one trade.
OnePush ==
  /\ last'[1] \in {"SioEvent", "WsMessage"} /\ msg'.k = "call"
  /\ pushes' = pushes + 1

\* C21: a push puts the new trade at index 0 and moves every kept entry down by one
\* place in the same order; on a buffer of 100 entries the result has 100 entries and
\* only the former last entry is gone.
C21_PushPrependsDropsOldest ==
  [][OnePush =>
       /\ IsObjectMessage(msg'.d)
       /\ Ident(trades'[1]) = PayloadOf(msg'.d)[IF variant = "page" THEN "signature" ELSE "id"]
       /\ trades'[1].timestamp = PayloadOf(msg'.d)["timestamp"]
       /\ Len(trades') = (IF Len(trades) < 100 THEN Len(trades) + 1 ELSE 100)
       /\ \A k \in 1..(Len(trades') - 1) : trades'[k + 1] = trades[k]]_vars

C21_Witness ==
  /\ Delivered /\ pushes = 1 /\ IsObjectMessage(msg.d)
  /\ Len(trades) = 100
  /\ Ident(trades[1]) \in {"t1", "s1"}
  /\ \A k \in 2..100 : trades[k] = Filler(102 - k)

\* C22 (component of part_000): the buffer is the newest-first sequence of the accepted
\* messages since the last clear, cut at 100: every delivered message that is accepted
\* is pushed once, in front of what the buffer held, and a message that is not
\* accepted leaves the buffer as it was.
C22_BufferIsDeliveryOrder ==
  [][(variant = "feed" /\ last'[1] \in {"SioEvent", "WsMessage"} /\ msg'.k = "call") =>
       IF IsObjectMessage(msg'.d)
         THEN /\ Len(trades') = (IF Len(trades) < 100 THEN Len(trades) + 1 ELSE 100)
              /\ Ident(trades'[1]) = PayloadOf(msg'.d)["id"]
              /\ \A k \in 1..(Len(trades') - 1) : trades'[k + 1] = trades[k]
         ELSE trades' = trades]_vars

\* The five predicates of the filter, as positions of the callback's checks, in the
\* order the code writes them: symbol, price range, size range, side, exchange.
Predicates == <<<<1>>, <<2, 3>>, <<4, 5>>, <<6>>, <<7>>>>

\* Every order in which the five predicates can be evaluated.
Orders ==
  {Predicates[p[1]] \o Predicates[p[2]] \o Predicates[p[3]] \o Predicates[p[4]]
     \o Predicates[p[5]] :
     p \in Permutations(1..5)}

ContainsIgnoringCase(text, sub) ==
  \E i \in 0..(Len(text) - Len(sub)) :
    \A j \in 1..Len(sub) : LowerChar(text[i + j]) = LowerChar(sub[j])

WithinRange(x, lo, hi) ==
  /\ lo = <<>> \/ ParseFloat(lo) <= x
  /\ hi = <<>> \/ x <= ParseFloat(hi)

Matches(trade) ==
  /\ ContainsIgnoringCase(trade.symbol, filters.symbol)
  /\ ContainsIgnoringCase(trade.exchange, filters.exchange)
  /\ WithinRange(trade.price, filters.priceMin, filters.priceMax)
  /\ WithinRange(trade.size, filters.sizeMin, filters.sizeMax)
  /\ trade.side \in {filters.sides[k] : k \in 1..Len(filters.sides)}

ViewIsConjunction ==
  /\ FilteredTrades = SelectSeq(trades, Matches)
  /\ \A order \in Orders : FilterIn(order, trades, filters) = FilteredTrades

\* C23: setting the filters never changes the buffer, and the filtered view is, in
\* buffer order, exactly the entries that satisfy all five predicates (substring of
\* symbol and of exchange ignoring case, price and size within inclusive ranges, side
\* in the selected set), whatever the order in which the predicates are evaluated.
C23_FilteredViewIsConjunction ==
  []ViewIsConjunction /\ [][trades' = trades]_vars

C23_Witness ==
  /\ trades = <<TradeA, TradeB, TradeC, TradeD>>
  /\ filters.symbol # <<>> /\ filters.exchange # <<>>
  /\ filters.priceMin = <<"0", "1">> /\ filters.priceMax # <<>>
  /\ filters.sizeMin # <<>>
  /\ Len(filters.sides) = 1
  /\ FilteredTrades = <<TradeA>>

IsBuy(trade) == trade.side = "buy"

BlankExceptSides ==
  /\ filters.symbol = <<>> /\ filters.exchange = <<>>
  /\ filters.priceMin = <<>> /\ filters.priceMax = <<>>
  /\ filters.sizeMin = <<>> /\ filters.sizeMax = <<>>

\* A trade that satisfies every predicate other than the price range, and every
\* predicate other than the size range.
MatchesButPrice(trade) ==
  /\ ContainsIgnoringCase(trade.symbol, filters.symbol)
  /\ ContainsIgnoringCase(trade.exchange, filters.exchange)
  /\ WithinRange(trade.size, filters.sizeMin, filters.sizeMax)
  /\ trade.side \in {filters.sides[k] : k \in 1..Len(filters.sides)}

MatchesButSize(trade) ==
  /\ ContainsIgnoringCase(trade.symbol, filters.symbol)
  /\ ContainsIgnoringCase(trade.exchange, filters.exchange)
  /\ WithinRange(trade.price, filters.priceMin, filters.priceMax)
  /\ trade.side \in {filters.sides[k] : k \in 1..Len(filters.sides)}

C25_ClearKeepsConnection ==
  [][/\ last'[1] = "clearTradesList" =>
          /\ trades' = <<>>
          /\ connectionStatus' = connectionStatus
          /\ socket' = socket
          /\ webSocket' = webSocket
          /\ connectionType' = connectionType
          /\ filters' = filters
     /\ (/\ last[1] = "clearTradesList"
         /\ last'[1] \in {"SioEvent", "WsMessage"}
         /\ msg'.k = "call"
         /\ IsObjectMessage(msg'.d)) =>
          /\ Len(trades') >= 1
          /\ Ident(trades'[1])
               = PayloadOf(msg'.d)[IF variant = "page" THEN "signature" ELSE "id"]]_vars

C25_Witness ==
  /\ Delivered
  /\ IsObjectMessage(msg.d)
  /\ Len(trades) = 1
  /\ connectionStatus = "connected"
  /\ variant = "feed"
  /\ filters.sides = <<"sell">>

\* The steps of the negotiator: starting a connect, every event of an attempt, the
\* user's disconnect and a closure from the transport's side.
NegotiatorSteps ==
  {"connectSmart", "connectSmartBlank", "SioConnect", "SioConnectError", "SioTimeout",
   "SioServerClose", "WsOpen", "WsError", "WsTimeout", "WsClose", "WsServerClose",
   "disconnectSmart"}

\* C26: in part_000 no step of the negotiator changes the trade buffer, whether a
\* connect succeeds or fails, the user disconnects or the transport closes; the
\* buffer changes only when a message is delivered or the user clears the trades.
C26_NegotiatorKeepsBuffer ==
  [][variant = "feed" =>
       /\ last'[1] \in NegotiatorSteps => trades' = trades
       /\ trades' # trades => last'[1] \in {"SioEvent", "WsMessage", "clearTradesList"}]_vars

C26_Witness ==
  /\ variant = "feed"
  /\ trades # <<>>
  /\ connectionStatus = "error"
  /\ last[1] \in NegotiatorSteps

Decoded(m) == m.s.v

\* C27: on every connection the producer accepted, the first message sent is the
\* welcome object {type, message, timestamp}, and every later message is a trade
\* object with exactly the fields id, timestamp, symbol, price, size, side, exchange.
C27_WelcomeThenTrades ==
  \A c \in Clients :
    LET sent == server[c].sent IN
    /\ server[c].readyState # "none" => Len(sent) >= 1
    /\ \A k \in 1..Len(sent) :
         /\ Parses(sent[k].s)
         /\ Decoded(sent[k]).k = "object"
         /\ IF k = 1
              THEN /\ DOMAIN Decoded(sent[k]).f = {"type", "message", "timestamp"}
                   /\ Decoded(sent[k]).f.type = "welcome"
              ELSE DOMAIN Decoded(sent[k]).f = NativeFields

C27_Witness ==
  /\ Len(server["c1"].sent) = 3
  /\ Len(server["c2"].sent) = 2
  /\ last[1] = "TradeInterval"

\* C28: the producer sends a trade only on a connection that is open and has neither
\* closed nor errored; the close handler and the error handler both cancel the
\* connection's timer; what happens on one connection leaves every other connection,
\* its timer included, as it was.
C28_NoTradeAfterClose ==
  [][\A c \in Clients :
       /\ (server[c].readyState # "none" /\ server'[c].sent # server[c].sent) =>
            /\ server[c].readyState = "OPEN"
            /\ server[c].tradeInterval = "running"
       /\ (last'[1] \in {"ProducerClose", "ProducerError"} /\ server'[c] # server[c]) =>
            server'[c].tradeInterval = "cleared"
       /\ server'[c].readyState = "CLOSED" => server'[c].tradeInterval = "cleared"
       /\ server'[c] # server[c] =>
            \A d \in Clients \ {c} : server'[d] = server[d]]_vars

C28_Witness ==
  /\ server["c1"].readyState = "CLOSED"
  /\ server["c1"].tradeInterval = "cleared"
  /\ Len(server["c1"].sent) = 2
  /\ last[1] = "TradeInterval"
  /\ Len(server["c2"].sent) = 3

\* C29: in part_000, when every pending attempt's open, error or timeout event
\* eventually fires, a connect that started a handshake completes: its invocation
\* runs to its end, and the status does not stay connecting but reaches connected or
\* error.
C29_ConnectCompletes ==
  /\ \A i \in Invs : (pc[i] \in {"sio", "ws"}) ~> (pc[i] = "done")
  /\ (connectionStatus = "connecting") ~> (connectionStatus \in {"connected", "error"})

C29_Witness ==
  /\ variant = "feed"
  /\ pc[1] = "done"
  /\ sioErr[1] = "none"
  /\ connectionStatus = "error"
  /\ last = <<"WsTimeout", 1>>

\* C30: in part_000 the handshake timer of an attempt is cleared by the step in which
\* the attempt succeeds or errors; a timer fires only for an attempt that is still
\* pending, so never for a transport that was promoted to the active handle; and an
\* attempt that was settled stays settled the way it was.
C30_TimerCancelledSettledOnce ==
  [][variant = "feed" =>
       \A i \in Invs :
         /\ last' \in {<<"SioConnect", i>>, <<"SioConnectError", i>>} => ~sioTimer'[i]
         /\ last' \in {<<"WsOpen", i>>, <<"WsError", i>>} => ~wsTimer'[i]
         /\ sioTimer'[i] => (pc'[i] = "sio" /\ socket' # i)
         /\ wsTimer'[i] => (pc'[i] = "ws" /\ wsP'[i] = "pending" /\ webSocket' # i)
         /\ pc[i] = "ws" => pc'[i] \in {"ws", "done"}
         /\ pc[i] = "done" => pc'[i] = "done"
         /\ wsP[i] \in {"resolved", "rejected"} => wsP'[i] = wsP[i]]_vars

C30_Witness ==
  /\ variant = "feed"
  /\ last = <<"SioConnect", 1>>
  /\ sioRegs[1] = 2
  /\ pc[1] = "done"
  /\ socket = 1
  /\ ~sioTimer[1]

\* C31: connect with an empty or whitespace-only URL starts no handshake attempt (no
\* invocation advances, no socket is created, no timer is armed) and leaves the
\* status, both handles, the type and the buffer as they were; it only surfaces the
\* error notice.
C31_BlankUrlStartsNothing ==
  [][last'[1] = "connectSmartBlank" =>
       /\ wsUrl \in {"", " "}
       /\ error' = BlankUrlMessage
       /\ connectionStatus' = connectionStatus
       /\ socket' = socket
       /\ webSocket' = webSocket
       /\ connectionType' = connectionType
       /\ trades' = trades
       /\ pc' = pc /\ sio' = sio /\ ws' = ws
       /\ sioTimer' = sioTimer /\ wsTimer' = wsTimer /\ wsP' = wsP]_vars

C31_Witness ==
  /\ last[1] = "connectSmartBlank"
  /\ wsUrl = " "
  /\ error = BlankUrlMessage
  /\ connectionStatus = "disconnected"
  /\ trades # <<>>

\* C32: a step that starts and ends with the status disconnected or error adds no
\* trade to the buffer (it leaves the buffer as it is or empties it).
C32_NoTradeWhileDisconnected ==
  [][(/\ connectionStatus \in {"disconnected", "error"}
      /\ connectionStatus' \in {"disconnected", "error"}) =>
       (trades' = trades \/ trades' = <<>>)]_vars

HandshakeInFlight == \E i \in Invs : pc[i] \in {"sio", "ws"}

\* C33: in page.tsx mock mode is never on while a Socket.IO or WebSocket handle is
\* set or a handshake attempt is in flight.
C33_MockExcludesConnection ==
  (variant = "page" /\ isMockMode) =>
     (socket = 0 /\ webSocket = 0 /\ ~HandshakeInFlight)

\* C34: stopMockMode cancels the mock timer and sets the status to disconnected and
\* keeps the trades that are in the buffer; a mock trade is pushed only while mock
\* mode is on, so none is pushed after the stop.
C34_StopMockCancelsTimer ==
  [][/\ last'[1] = "stopMockMode" =>
          /\ \A m \in Mocks : mock'[m] # "running"
          /\ mockInterval' = 0
          /\ ~isMockMode'
          /\ connectionStatus' = "disconnected"
          /\ trades' = trades
     /\ (last'[1] = "MockTick" /\ trades' # trades) => isMockMode
     /\ ~isMockMode' => \A m \in Mocks : mock'[m] # "running"]_vars

C34_Witness ==
  /\ last[1] = "stopMockMode"
  /\ pushes = 1
  /\ Len(trades) = InitialMockTrades + 1
  /\ mock[1] = "cleared"
  /\ connectionStatus = "disconnected"

\* d is the text "42" followed by a JSON array that has fewer than two elements or
\* whose first element is not the event name tradeCreated.
IsOtherEnvelope(d) ==
  /\ d.k = "string" /\ d.s.json /\ d.s.prefix = "42" /\ d.s.v.k = "array"
  /\ (Len(d.s.v.a) < 2 \/ ~IsTradeCreated(d.s.v.a[1]))

\* C35: in page.tsx a frame "42[...]" whose array has fewer than two elements or does
\* not start with the event name tradeCreated leaves the buffer as it is.
C35_OtherEnvelopeIgnored ==
  [][(/\ variant = "page"
      /\ last'[1] = "WsMessage"
      /\ msg'.k = "call"
      /\ IsOtherEnvelope(msg'.d)) => trades' = trades]_vars

\* C36: the delivery of one message pushes at most one trade into the buffer.
C36_AtMostOnePushPerMessage ==
  [][last'[1] \in {"SioEvent", "WsMessage"} => pushes' <= pushes + 1]_vars

\* The client closes the transport that is the active handle, or cancels the mock
\* timer that is running, in this step.
ClosesActiveSocket ==
  socket # 0 /\ sio[socket] = "connected" /\ sio'[socket] = "closed"
ClosesActiveWebSocket ==
  webSocket # 0 /\ ws[webSocket] = "OPEN" /\ ws'[webSocket] = "CLOSING"
CancelsMockTimer ==
  mockInterval # 0 /\ mock[mockInterval] = "running" /\ mock'[mockInterval] = "cleared"

\* C37: the client closes an established active transport only in the user's
\* disconnect (the server ending the connection is not the client closing it), and
\* cancels a running mock timer only in stopMockMode; no other change of a handle or
\* of the timer state makes the cleanup effect do so.
C37_CleanupSparesActive ==
  [][/\ ClosesActiveSocket => last'[1] \in {"disconnectSmart", "SioServerClose"}
     /\ ClosesActiveWebSocket => last'[1] = "disconnectSmart"
     /\ CancelsMockTimer => last'[1] = "stopMockMode"]_vars

====
